---- MODULE Spec2Model ----
(***************************************************************************)
(* The top-up backend (server.js of the template): the orders and admins   *)
(* tables, the session store, the start-up seeding of the default admin    *)
(* and the five API route handlers.  Every handler is split at the points  *)
(* where the code hands control to an asynchronous callback (a sqlite      *)
(* statement, a bcrypt call), so requests of different clients interleave  *)
(* as they do in the Node event loop.                                      *)
(***************************************************************************)
EXTENDS Integers, Sequences, FiniteSets, TLC

VARIABLES
  orders,    \* the orders table, rows in insertion (rowid) order
  admins,    \* the admins table, rows in insertion order
  seedPc,    \* position of the start-up seeding callback chain
  sess,      \* the session store: per client cookie, the session's admin field
  now,       \* the second (CURRENT_TIMESTAMP) in which the last INSERT ran
  inflight,  \* per client, the request whose callback is still outstanding
  resp,      \* the HTTP response sent by the last step (NoResp if it sent none)
  limiter    \* the rate limiter: per client the hits its store counts in the
             \* current window, and the requests answered other than by 429

vars == <<orders, admins, seedPc, sess, now, inflight, resp, limiter>>

----------------------------------------------------------------------------
(* Bounds of the model *)

\* Number of distinct ids uuidv4 can draw; the primary key caps the table at this
MaxIds == 2
\* The row limit of the admin listing (LIMIT 200 in the query), scaled down so
\* that the bounded table can hold more rows than the limit
ListLimit == 1

----------------------------------------------------------------------------
(* Values *)

Clients == {"c1", "c2"}
\* The values uuidv4 can return
IdNames == <<"id1", "id2", "id3", "id4", "id5", "id6">>
Ids == {IdNames[i] : i \in 1..MaxIds}

Undefined == "<undefined>"
Idle == [op |-> "idle"]
NoResp == [op |-> "none"]
NoAdmin == [id |-> 0, username |-> ""]
\* A JavaScript number: NaN or an integer
NaN == [nan |-> TRUE, n |-> 0]
Number(n) == [nan |-> FALSE, n |-> n]

Digits == <<"0", "1", "2", "3", "4", "5", "6", "7", "8", "9">>
IsDigit(ch) == \E i \in 1..10 : Digits[i] = ch
DigitVal(ch) == (CHOOSE i \in 1..10 : Digits[i] = ch) - 1

\* JavaScript values an HTTP body can carry for amount: a missing field, a JSON
\* number (held as the text String() gives it) or a string (a form posts text)
Num(txt) == [t |-> "number", v |-> txt]
Str(txt) == [t |-> "string", v |-> txt]
NoAmount == [t |-> "undefined", v |-> <<>>]
AmountInputs ==
  { NoAmount,
    Num(<<"0">>), Num(<<"5">>), Num(<<"1", "5", ".", "5">>),
    Str(<<>>), Str(<<"0">>), Str(<<"5">>), Str(<<"-", "5">>), Str(<<"1", "5">>),
    Str(<<"a", "b">>), Str(<<"5", "a", "b">>), Str(<<"0", ".", "5">>) }
\* The orderId values a mock-pay body carries
OrderIdInputs == Ids \cup {Undefined}

\* The request bodies the whole-system specification posts: one body for
\* every way through the validation of each handler
Body(user, game, amount) == [user |-> user, game |-> game, amount |-> amount]
TopupBodies ==
  { Body(Undefined, "COIN-100", Str(<<"5">>)), Body("alice", "COIN-100", Str(<<"0">>)),
    Body("alice", "COIN-100", Str(<<"5">>)), Body("alice", "COIN-100", Str(<<"5", "a", "b">>)) }
\* The request bodies the order specification posts: every amount with a user
\* and a game, and a body without a user (undefined) and one without a game ("")
AllTopupBodies ==
  {Body("alice", "COIN-100", a) : a \in AmountInputs}
    \cup {Body(Undefined, "COIN-100", Str(<<"5">>)), Body("alice", "", Str(<<"5">>))}
Cred(username, password) == [username |-> username, password |-> password]
LoginBodies ==
  { Cred(Undefined, "changeit"), Cred("admin", Undefined), Cred("admin", "changeit"),
    Cred("admin", "wrong"), Cred("eve", "changeit") }

----------------------------------------------------------------------------
(* Pure functions of the handlers *)

\* JavaScript truthiness of a text field: !x is true for undefined and ""
Falsy(x) == x = Undefined \/ x = ""

\* JavaScript truthiness of the amount field: undefined, 0 and "" are falsy
FalsyAmount(a) ==
  \/ a.t = "undefined"
  \/ a.t = "number" /\ a.v = <<"0">>
  \/ a.t = "string" /\ a.v = <<>>

RECURSIVE SkipSpace(_)
SkipSpace(s) ==
  IF s # <<>> /\ Head(s) = " " THEN SkipSpace(Tail(s)) ELSE s

RECURSIVE DigitPrefix(_)
DigitPrefix(s) ==
  IF s # <<>> /\ IsDigit(Head(s)) THEN <<Head(s)>> \o DigitPrefix(Tail(s)) ELSE <<>>

RECURSIVE DecimalValue(_)
DecimalValue(ds) ==
  IF ds = <<>> THEN 0
  ELSE 10 * DecimalValue(SubSeq(ds, 1, Len(ds) - 1)) + DigitVal(ds[Len(ds)])

\* parseInt(x, 10): leading white space is skipped, one sign is read, then the
\* longest run of digits; whatever follows the digits is ignored; no digit: NaN
parseInt(a) ==
  LET s    == SkipSpace(a.v)
      neg  == s # <<>> /\ Head(s) = "-"
      body == IF s # <<>> /\ Head(s) \in {"-", "+"} THEN Tail(s) ELSE s
      ds   == DigitPrefix(body)
  IN  IF a.t = "undefined" \/ ds = <<>> THEN NaN
      ELSE IF neg THEN Number(0 - DecimalValue(ds)) ELSE Number(DecimalValue(ds))

isNaN(x) == x.nan

\* bcrypt.hash(password, 10) and bcrypt.compare(password, hash)
bcryptHash(p) == [alg |-> "bcrypt", cost |-> 10, of |-> p]
bcryptCompare(p, h) == h.of = p

----------------------------------------------------------------------------
(* The tables *)

OrderIds == {orders[i].id : i \in 1..Len(orders)}
OrderAt(id) == orders[CHOOSE i \in 1..Len(orders) : orders[i].id = id]

\* Ids drawn so far: those of stored rows and of inserts still outstanding
PendingIds == {inflight[c].id : c \in {d \in Clients : inflight[d].op = "topup"}}
DrawnIds == OrderIds \cup PendingIds

\* uuidv4(): a random id.  Ids are interchangeable, so a draw is either the
\* least id never drawn or an id drawn before (a collision)
uuidv4 ==
  LET fresh == Ids \ DrawnIds
      least == CHOOSE i \in 1..MaxIds :
                 IdNames[i] \in fresh /\ \A j \in 1..(i - 1) : IdNames[j] \notin fresh
  IN  DrawnIds \cup (IF fresh = {} THEN {} ELSE {IdNames[least]})

\* The rate limiter's store and the count of answered requests, both empty
NoHits == [hits |-> [c \in Clients |-> 0], served |-> [c \in Clients |-> 0]]

----------------------------------------------------------------------------
Init ==
  /\ orders = <<>>
  /\ admins = <<>>
  /\ seedPc = "count"
  /\ sess = [c \in Clients |-> NoAdmin]
  /\ now = 0
  /\ inflight = [c \in Clients |-> Idle]
  /\ resp = NoResp
  /\ limiter = NoHits

----------------------------------------------------------------------------
(* Start-up: the default admin is seeded by a chain of callbacks that runs *)
(* while the server already listens                                         *)

AdminRow(username) ==
  CHOOSE i \in 1..Len(admins) : admins[i].username = username
HasAdmin(username) == \E i \in 1..Len(admins) : admins[i].username = username

\* Mutant: the seeding goes on whatever the count
SeedCount_NoCheck(err) ==
  /\ seedPc = "count"
  /\ seedPc' = IF ~err THEN "hash" ELSE "done"
  /\ resp' = NoResp
  /\ UNCHANGED <<orders, admins, sess, now, inflight, limiter>>

\* db.get('SELECT COUNT(*) as c FROM admins') answers: the seeding goes on only
\* if a row came back and counts zero
SeedCount(err) ==
  /\ seedPc = "count"
  /\ seedPc' = IF ~err /\ Len(admins) = 0 THEN "hash" ELSE "done"
  /\ resp' = NoResp
  /\ UNCHANGED <<orders, admins, sess, now, inflight, limiter>>

\* bcrypt.hash(defaultPass, 10) answers: on an error nothing is inserted
SeedHash(err) ==
  /\ seedPc = "hash"
  /\ seedPc' = IF err THEN "done" ELSE "insert"
  /\ resp' = NoResp
  /\ UNCHANGED <<orders, admins, sess, now, inflight, limiter>>

\* The INSERT INTO admins runs; it has no callback, a failure goes unnoticed.
\* The UNIQUE username and the AUTOINCREMENT id are the table's
SeedInsert(err) ==
  /\ seedPc = "insert"
  /\ seedPc' = "done"
  /\ admins' = IF err \/ HasAdmin("admin") THEN admins
               ELSE Append(admins, [id |-> Len(admins) + 1, username |-> "admin",
                                    password_hash |-> bcryptHash("changeit")])
  /\ resp' = NoResp
  /\ UNCHANGED <<orders, sess, now, inflight, limiter>>

----------------------------------------------------------------------------
(* POST /api/topup *)

\* The synchronous part: validation, then the id is drawn and the INSERT queued
TopupRequest(c, user, game, amount) ==
  /\ inflight[c] = Idle
  /\ IF Falsy(user) \/ Falsy(game) \/ FalsyAmount(amount)
     THEN /\ resp' = [op |-> "topup", status |-> 400]
          /\ UNCHANGED inflight
     ELSE LET numericAmount == parseInt(amount)
          IN  IF isNaN(numericAmount) \/ numericAmount.n <= 0
              THEN /\ resp' = [op |-> "topup", status |-> 400]
                   /\ UNCHANGED inflight
              ELSE \E id \in uuidv4 :
                     /\ inflight' = [inflight EXCEPT ![c] =
                          [op |-> "topup", id |-> id, user |-> user, game |-> game,
                           numericAmount |-> numericAmount.n]]
                     /\ resp' = NoResp
  /\ UNCHANGED <<orders, admins, seedPc, sess, now, limiter>>

\* Mutant: the orders table without its primary key
TopupInsert_NoPrimaryKey(c, err, later) ==
  /\ inflight[c].op = "topup"
  /\ later => Len(orders) > 0
  /\ LET r == inflight[c]
         CURRENT_TIMESTAMP == IF later THEN now + 1 ELSE now
     IN  IF err
         THEN /\ resp' = [op |-> "topup", status |-> 500]
              /\ UNCHANGED <<orders, now>>
         ELSE /\ orders' = Append(orders,
                    [id |-> r.id, user |-> r.user, game |-> r.game,
                     amount |-> r.numericAmount, status |-> "PENDING",
                     created_at |-> CURRENT_TIMESTAMP])
              /\ now' = CURRENT_TIMESTAMP
              /\ resp' = [op |-> "topup", status |-> 200, orderId |-> r.id]
  /\ inflight' = [inflight EXCEPT ![c] = Idle]
  /\ UNCHANGED <<admins, seedPc, sess, limiter>>

\* The INSERT runs and its callback answers.  err: the statement failed for a
\* reason of the storage; a duplicate primary key always fails it.  The row is
\* stamped with CURRENT_TIMESTAMP, which only an INSERT reads: later says
\* whether the clock has passed to a later second since the last INSERT
TopupInsert(c, err, later) ==
  /\ inflight[c].op = "topup"
  /\ later => Len(orders) > 0
  /\ LET r == inflight[c]
         CURRENT_TIMESTAMP == IF later THEN now + 1 ELSE now
     IN  IF err \/ r.id \in OrderIds
         THEN /\ resp' = [op |-> "topup", status |-> 500]
              /\ UNCHANGED <<orders, now>>
         ELSE /\ orders' = Append(orders,
                    [id |-> r.id, user |-> r.user, game |-> r.game,
                     amount |-> r.numericAmount, status |-> "PENDING",
                     created_at |-> CURRENT_TIMESTAMP])
              /\ now' = CURRENT_TIMESTAMP
              /\ resp' = [op |-> "topup", status |-> 200, orderId |-> r.id]
  /\ inflight' = [inflight EXCEPT ![c] = Idle]
  /\ UNCHANGED <<admins, seedPc, sess, limiter>>

----------------------------------------------------------------------------
(* POST /api/admin/login *)

LoginRequest(c, username, password) ==
  /\ inflight[c] = Idle
  /\ IF Falsy(username) \/ Falsy(password)
     THEN /\ resp' = [op |-> "login", status |-> 400]
          /\ UNCHANGED inflight
     ELSE /\ inflight' = [inflight EXCEPT ![c] =
               [op |-> "login-get", username |-> username, password |-> password]]
          /\ resp' = NoResp
  /\ UNCHANGED <<orders, admins, seedPc, sess, now, limiter>>

\* Mutant: a login that finds no row ends the session
LoginGet_ClearsSession(c, err) ==
  /\ inflight[c].op = "login-get"
  /\ LET r == inflight[c]
     IN  IF err
         THEN /\ resp' = [op |-> "login", status |-> 500]
              /\ inflight' = [inflight EXCEPT ![c] = Idle]
              /\ UNCHANGED sess
         ELSE IF ~HasAdmin(r.username)
         THEN /\ resp' = [op |-> "login", status |-> 401]
              /\ inflight' = [inflight EXCEPT ![c] = Idle]
              /\ sess' = [sess EXCEPT ![c] = NoAdmin]
         ELSE /\ inflight' = [inflight EXCEPT ![c] =
                   [op |-> "login-compare", username |-> r.username, password |-> r.password,
                    row |-> admins[AdminRow(r.username)]]]
              /\ resp' = NoResp
              /\ UNCHANGED sess
  /\ UNCHANGED <<orders, admins, seedPc, now, limiter>>

\* Mutant: the callback answers 500 on an error and goes on all the same
LoginGet_NoReturn(c, err) ==
  /\ inflight[c].op = "login-get"
  /\ LET r == inflight[c]
     IN  IF ~HasAdmin(r.username)
         THEN /\ resp' = [op |-> "login", status |-> IF err THEN 500 ELSE 401]
              /\ inflight' = [inflight EXCEPT ![c] = Idle]
         ELSE /\ inflight' = [inflight EXCEPT ![c] =
                   [op |-> "login-compare", username |-> r.username, password |-> r.password,
                    row |-> admins[AdminRow(r.username)]]]
              /\ resp' = IF err THEN [op |-> "login", status |-> 500] ELSE NoResp
  /\ UNCHANGED <<orders, admins, seedPc, sess, now, limiter>>

\* db.get('SELECT * FROM admins WHERE username = ?') answers
LoginGet(c, err) ==
  /\ inflight[c].op = "login-get"
  /\ LET r == inflight[c]
     IN  IF err
         THEN /\ resp' = [op |-> "login", status |-> 500]
              /\ inflight' = [inflight EXCEPT ![c] = Idle]
         ELSE IF ~HasAdmin(r.username)
         THEN /\ resp' = [op |-> "login", status |-> 401]
              /\ inflight' = [inflight EXCEPT ![c] = Idle]
         ELSE /\ inflight' = [inflight EXCEPT ![c] =
                   [op |-> "login-compare", username |-> r.username, password |-> r.password,
                    row |-> admins[AdminRow(r.username)]]]
              /\ resp' = NoResp
  /\ UNCHANGED <<orders, admins, seedPc, sess, now, limiter>>

\* Mutant: the callback tests the error instead of the result of the comparison
LoginCompare_TestsError(c, e) ==
  /\ inflight[c].op = "login-compare"
  /\ LET r == inflight[c]
     IN  IF ~e
         THEN /\ sess' = [sess EXCEPT ![c] = [id |-> r.row.id, username |-> r.row.username]]
              /\ resp' = [op |-> "login", status |-> 200, ok |-> TRUE]
         ELSE /\ resp' = [op |-> "login", status |-> 401]
              /\ UNCHANGED sess
  /\ inflight' = [inflight EXCEPT ![c] = Idle]
  /\ UNCHANGED <<orders, admins, seedPc, now, limiter>>

\* bcrypt.compare(password, row.password_hash) answers (e, ok); on an error ok
\* is undefined
LoginCompare(c, e) ==
  /\ inflight[c].op = "login-compare"
  /\ LET r  == inflight[c]
         ok == ~e /\ bcryptCompare(r.password, r.row.password_hash)
     IN  IF ok
         THEN /\ sess' = [sess EXCEPT ![c] = [id |-> r.row.id, username |-> r.row.username]]
              /\ resp' = [op |-> "login", status |-> 200, ok |-> TRUE]
         ELSE /\ resp' = [op |-> "login", status |-> 401]
              /\ UNCHANGED sess
  /\ inflight' = [inflight EXCEPT ![c] = Idle]
  /\ UNCHANGED <<orders, admins, seedPc, now, limiter>>

----------------------------------------------------------------------------
(* GET /api/admin/orders *)

Min(a, b) == IF a < b THEN a ELSE b

\* The orderings ORDER BY created_at DESC allows: rows of one second come in
\* any order, the query names no second key
SortedByCreatedDesc(idx) ==
  \A i, j \in 1..Len(idx) : i < j => orders[idx[i]].created_at >= orders[idx[j]].created_at
Orderings ==
  { idx \in [1..Len(orders) -> 1..Len(orders)] :
      /\ \A i, j \in 1..Len(orders) : i # j => idx[i] # idx[j]
      /\ SortedByCreatedDesc(idx) }

\* SELECT * FROM orders ORDER BY created_at DESC LIMIT n: the result sets the
\* query allows
SelectOrders ==
  { [k \in 1..Min(Len(orders), ListLimit) |-> orders[idx[k]]] : idx \in Orderings }

\* Mutant: the handler without its session guard
ListOrdersRequest_NoGuard(c) ==
  /\ inflight[c] = Idle
  /\ inflight' = [inflight EXCEPT ![c] = [op |-> "orders"]]
  /\ resp' = NoResp
  /\ UNCHANGED <<orders, admins, seedPc, sess, now, limiter>>


ListOrdersRequest(c) ==
  /\ inflight[c] = Idle
  /\ IF sess[c] = NoAdmin
     THEN /\ resp' = [op |-> "orders", status |-> 401]
          /\ UNCHANGED inflight
     ELSE /\ inflight' = [inflight EXCEPT ![c] = [op |-> "orders"]]
          /\ resp' = NoResp
  /\ UNCHANGED <<orders, admins, seedPc, sess, now, limiter>>

ListOrdersAll(c, err) ==
  /\ inflight[c].op = "orders"
  /\ IF err
     THEN resp' = [op |-> "orders", status |-> 500]
     ELSE \E rows \in SelectOrders :
            resp' = [op |-> "orders", status |-> 200, orders |-> rows]
  /\ inflight' = [inflight EXCEPT ![c] = Idle]
  /\ UNCHANGED <<orders, admins, seedPc, sess, now, limiter>>

----------------------------------------------------------------------------
(* POST /api/webhook/mock-pay *)

MockPayRequest(c, orderId) ==
  /\ inflight[c] = Idle
  /\ IF Falsy(orderId)
     THEN /\ resp' = [op |-> "mock-pay", status |-> 400]
          /\ UNCHANGED inflight
     ELSE /\ inflight' = [inflight EXCEPT ![c] = [op |-> "mock-pay", orderId |-> orderId]]
          /\ resp' = NoResp
  /\ UNCHANGED <<orders, admins, seedPc, sess, now, limiter>>

\* Mutant: the UPDATE flips the status instead of setting it
UpdatePaid_Flip(orderId) ==
  [i \in 1..Len(orders) |->
     IF orders[i].id = orderId
     THEN [orders[i] EXCEPT !.status = IF @ = "PAID" THEN "PENDING" ELSE "PAID"]
     ELSE orders[i]]

\* Mutant: the UPDATE without its WHERE clause
UpdatePaid_NoWhere(orderId) ==
  [i \in 1..Len(orders) |-> [orders[i] EXCEPT !.status = "PAID"]]

\* UPDATE orders SET status = 'PAID' WHERE id = ?
UpdatePaid(orderId) ==
  [i \in 1..Len(orders) |->
     IF orders[i].id = orderId THEN [orders[i] EXCEPT !.status = "PAID"] ELSE orders[i]]

\* Mutant: the handler answers without running the UPDATE
MockPayUpdate_NoWrite(c, err) ==
  /\ inflight[c].op = "mock-pay"
  /\ resp' = IF err THEN [op |-> "mock-pay", status |-> 500]
             ELSE [op |-> "mock-pay", status |-> 200, ok |-> TRUE]
  /\ inflight' = [inflight EXCEPT ![c] = Idle]
  /\ UNCHANGED <<orders, admins, seedPc, sess, now, limiter>>


MockPayUpdate(c, err) ==
  /\ inflight[c].op = "mock-pay"
  /\ IF err
     THEN /\ resp' = [op |-> "mock-pay", status |-> 500]
          /\ UNCHANGED orders
     ELSE /\ orders' = UpdatePaid(inflight[c].orderId)
          /\ resp' = [op |-> "mock-pay", status |-> 200, ok |-> TRUE]
  /\ inflight' = [inflight EXCEPT ![c] = Idle]
  /\ UNCHANGED <<admins, seedPc, sess, now, limiter>>

----------------------------------------------------------------------------
(* POST /api/admin/logout *)

\* Mutant: the handler answers without destroying the session
Logout_KeepsSession(c) ==
  /\ resp' = [op |-> "logout", status |-> 200, ok |-> TRUE]
  /\ UNCHANGED <<orders, admins, seedPc, sess, now, inflight, limiter>>

\* req.session.destroy removes the session from the store at once; requests of
\* the same cookie that are still outstanding are not waited for
Logout(c) ==
  /\ sess' = [sess EXCEPT ![c] = NoAdmin]
  /\ resp' = [op |-> "logout", status |-> 200, ok |-> TRUE]
  /\ UNCHANGED <<orders, admins, seedPc, now, inflight, limiter>>

----------------------------------------------------------------------------
Next ==
  \/ \E err \in BOOLEAN : SeedCount(err)
  \/ \E err \in BOOLEAN : SeedHash(err)
  \/ \E err \in BOOLEAN : SeedInsert(err)
  \/ \E c \in Clients, b \in TopupBodies : TopupRequest(c, b.user, b.game, b.amount)
  \/ \E c \in Clients, err \in BOOLEAN, later \in BOOLEAN : TopupInsert(c, err, later)
  \/ \E c \in Clients, b \in LoginBodies : LoginRequest(c, b.username, b.password)
  \/ \E c \in Clients, err \in BOOLEAN : LoginGet(c, err)
  \/ \E c \in Clients, e \in BOOLEAN : LoginCompare(c, e)
  \/ \E c \in Clients : ListOrdersRequest(c)
  \/ \E c \in Clients, err \in BOOLEAN : ListOrdersAll(c, err)
  \/ \E c \in Clients, orderId \in OrderIdInputs : MockPayRequest(c, orderId)
  \/ \E c \in Clients, err \in BOOLEAN : MockPayUpdate(c, err)
  \/ \E c \in Clients : Logout(c)

Spec == Init /\ [][Next]_vars

----------------------------------------------------------------------------
(* The order handlers alone, with every amount of AmountInputs posted *)

NextOrders ==
  \/ \E c \in Clients, b \in AllTopupBodies : TopupRequest(c, b.user, b.game, b.amount)
  \/ \E c \in Clients, err \in BOOLEAN, later \in BOOLEAN : TopupInsert(c, err, later)
  \/ \E c \in Clients, orderId \in OrderIdInputs : MockPayRequest(c, orderId)
  \/ \E c \in Clients, err \in BOOLEAN : MockPayUpdate(c, err)

SpecOrders == Init /\ [][NextOrders]_vars

----------------------------------------------------------------------------
(* Process starts: the server is started on whatever db.sqlite holds and   *)
(* may be stopped and started again                                         *)

SeedRow == [id |-> 1, username |-> "admin", password_hash |-> bcryptHash("changeit")]

\* The admins table a first start can find in db.sqlite: none yet (the file is
\* new), the seeded one of an earlier run, or one where the operator has put
\* an account of another name in place of the default one
StartTables ==
  { <<>>, <<SeedRow>>,
    <<[id |-> 1, username |-> "root", password_hash |-> bcryptHash("rotated")]>> }

InitStart ==
  /\ orders = <<>>
  /\ admins \in StartTables
  /\ seedPc = "count"
  /\ sess = [c \in Clients |-> NoAdmin]
  /\ now = 0
  /\ inflight = [c \in Clients |-> Idle]
  /\ resp = NoResp
  /\ limiter = NoHits

\* The process ends and node server.js runs again: the tables stay in
\* db.sqlite, the sessions (kept in memory) and the outstanding callbacks are
\* gone, so is the store of the rate limiter; CREATE TABLE IF NOT EXISTS finds
\* both tables and the seeding starts over
Restart ==
  /\ seedPc' = "count"
  /\ sess' = [c \in Clients |-> NoAdmin]
  /\ inflight' = [c \in Clients |-> Idle]
  /\ resp' = NoResp
  /\ limiter' = NoHits
  /\ UNCHANGED <<orders, admins, now>>

\* The client whose requests the start-up specification follows
StartClients == {"c1"}

NextStart ==
  \/ \E err \in BOOLEAN : SeedCount(err)
  \/ \E err \in BOOLEAN : SeedHash(err)
  \/ \E err \in BOOLEAN : SeedInsert(err)
  \/ Restart
  \/ \E c \in StartClients, b \in TopupBodies : TopupRequest(c, b.user, b.game, b.amount)
  \/ \E c \in StartClients, err \in BOOLEAN, later \in BOOLEAN : TopupInsert(c, err, later)
  \/ \E c \in StartClients, b \in LoginBodies : LoginRequest(c, b.username, b.password)
  \/ \E c \in StartClients, err \in BOOLEAN : LoginGet(c, err)
  \/ \E c \in StartClients, e \in BOOLEAN : LoginCompare(c, e)
  \/ \E c \in StartClients : ListOrdersRequest(c)
  \/ \E c \in StartClients, err \in BOOLEAN : ListOrdersAll(c, err)
  \/ \E c \in StartClients, orderId \in OrderIdInputs : MockPayRequest(c, orderId)
  \/ \E c \in StartClients, err \in BOOLEAN : MockPayUpdate(c, err)
  \/ \E c \in StartClients : Logout(c)

SpecStart == InitStart /\ [][NextStart]_vars

----------------------------------------------------------------------------
(* The middleware chain in front of the routes: helmet, the body parsers,   *)
(* express.static, the session and, last, the rate limiter.  The route      *)
(* handlers above take up a request where the limiter has let it through.   *)

\* rateLimit({ windowMs: 60 * 1000, max: 30 })
max == 30
\* The counts are followed up to one past the ceiling
HitCap == max + 1

\* The files of public/, which express.static answers (index.html also for /)
StaticFiles == {"/", "/index.html", "/success.html", "/admin.html", "/styles.css"}

Req(method, path, malformed) == [method |-> method, path |-> path, malformed |-> malformed]
\* The requests a client sends: the pages, an asset, API calls (one with a
\* body that is not JSON) and a path nothing answers
Requests ==
  { Req("GET", "/", FALSE), Req("GET", "/styles.css", FALSE),
    Req("GET", "/success", FALSE), Req("GET", "/admin", FALSE),
    Req("POST", "/api/topup", FALSE), Req("POST", "/api/topup", TRUE),
    Req("GET", "/api/admin/orders", FALSE), Req("GET", "/missing", FALSE) }

\* The client (remote address) whose requests the limiter specification follows
LimitClients == {"c1"}

Counted(f, c) == [f EXCEPT ![c] = @ + 1]

\* One request passes down the chain.  A body the JSON parser rejects is
\* answered 400 by the parser; a GET of a file of public/ is answered by
\* express.static; only what is left reaches the limiter, which counts the
\* hit and answers 429 above max or else calls the route
Request(c, req) ==
  /\ limiter.hits[c] < HitCap /\ limiter.served[c] < HitCap
  /\ IF req.malformed
     THEN /\ resp' = [op |-> "body-parser", status |-> 400]
          /\ limiter' = [limiter EXCEPT !.served = Counted(@, c)]
     ELSE IF req.method = "GET" /\ req.path \in StaticFiles
     THEN /\ resp' = [op |-> "static", status |-> 200]
          /\ limiter' = [limiter EXCEPT !.served = Counted(@, c)]
     ELSE LET totalHits == limiter.hits[c] + 1
          IN  IF totalHits > max
              THEN /\ resp' = [op |-> "limiter", status |-> 429]
                   /\ limiter' = [limiter EXCEPT !.hits = Counted(@, c)]
              ELSE /\ resp' = [op |-> "route", path |-> req.path]
                   /\ limiter' = [hits |-> Counted(limiter.hits, c),
                                  served |-> Counted(limiter.served, c)]
  /\ UNCHANGED <<orders, admins, seedPc, sess, now, inflight>>

\* The store's timer fires every windowMs and forgets every hit
WindowReset ==
  /\ limiter' = NoHits
  /\ resp' = NoResp
  /\ UNCHANGED <<orders, admins, seedPc, sess, now, inflight>>

NextLimit ==
  \/ \E c \in LimitClients, req \in Requests : Request(c, req)
  \/ WindowReset

SpecLimit == Init /\ [][NextLimit]_vars

----------------------------------------------------------------------------
(* Callbacks: sqlite3 and bcrypt call every callback they were handed, so   *)
(* the outstanding callback of a request is eventually run                  *)

Callback(c) ==
  \/ \E err \in BOOLEAN, later \in BOOLEAN : TopupInsert(c, err, later)
  \/ \E err \in BOOLEAN : LoginGet(c, err)
  \/ \E e \in BOOLEAN : LoginCompare(c, e)
  \/ \E err \in BOOLEAN : ListOrdersAll(c, err)
  \/ \E err \in BOOLEAN : MockPayUpdate(c, err)

SpecFair == Init /\ [][Next]_vars /\ \A c \in Clients : WF_vars(Callback(c))

----------------------------------------------------------------------------
(* Properties *)

Resp(op, status) == [op |-> op, status |-> status]

\* C1: a listing requested on a session that holds no admin is answered 401
\* at once, without a query, and a listing is only ever queried (and so only
\* ever answered with rows) for a request that found an admin in its session.
C1_ListOrdersNeedsAdmin ==
  [][ /\ \A c \in Clients :
           ListOrdersRequest(c) /\ sess[c] = NoAdmin
             => resp' = Resp("orders", 401) /\ inflight' = inflight
      /\ \A c \in Clients :
           inflight'[c].op = "orders" /\ inflight[c].op # "orders" => sess[c] # NoAdmin
      /\ resp'.op = "orders" /\ resp'.status = 200
           => \E c \in Clients : inflight[c].op = "orders" /\ inflight'[c] = Idle
    ]_vars

\* C1 witness: a listing was refused while rows are stored and the other
\* session holds an admin
C1_Witness ==
  /\ resp = Resp("orders", 401)
  /\ Len(orders) > 0
  /\ \E c, d \in Clients : sess[c] = NoAdmin /\ sess[d] # NoAdmin

\* C2: a login whose username has no row, or whose password is not the one
\* the stored hash was made of, is never answered 200 and leaves every
\* session as it was; it is answered 401 unless the lookup itself failed (500).
C2_BadLoginRefused ==
  [][ /\ \A c \in Clients, err \in BOOLEAN :
           LoginGet(c, err) /\ ~HasAdmin(inflight[c].username)
             => /\ resp' = Resp("login", IF err THEN 500 ELSE 401)
                /\ sess' = sess
                /\ inflight'[c] = Idle
      /\ \A c \in Clients, e \in BOOLEAN :
           LoginCompare(c, e) /\ inflight[c].row.password_hash.of # inflight[c].password
             => resp' = Resp("login", 401) /\ sess' = sess
    ]_vars

\* C2 witness: with the admin seeded, a login was refused and no session
\* holds an admin
C2_Witness ==
  /\ resp = Resp("login", 401)
  /\ HasAdmin("admin")
  /\ \A c \in Clients : sess[c] = NoAdmin

\* C3 (as claimed): whenever the server answers, a login with admin/changeit
\* finds the account, is answered 200 and binds the session to the row's id
\* and username, and a listing on that session is then answered with rows
\* (storage and bcrypt errors apart).
C3_SeedLoginAlwaysSucceeds ==
  [][ /\ \A c \in Clients :
           /\ LoginGet(c, FALSE)
           /\ inflight[c].username = "admin" /\ inflight[c].password = "changeit"
           => inflight'[c].op = "login-compare"
      /\ \A c \in Clients :
           /\ LoginCompare(c, FALSE)
           /\ inflight[c].username = "admin" /\ inflight[c].password = "changeit"
           => /\ resp' = [op |-> "login", status |-> 200, ok |-> TRUE]
              /\ sess'[c] = [id |-> inflight[c].row.id, username |-> "admin"]
      /\ \A c \in Clients :
           ListOrdersRequest(c) /\ sess[c] # NoAdmin => inflight'[c].op = "orders"
      /\ \A c \in Clients :
           ListOrdersAll(c, FALSE) => resp'.status = 200 /\ resp'.orders \in SelectOrders
    ]_vars

\* What the specification calls a valid amount: a number or text that is, after any
\* leading blanks, an optional sign and then digits only, and denotes a value
\* above zero
Unsigned(txt) ==
  LET s == SkipSpace(txt)
  IN  IF s # <<>> /\ Head(s) \in {"-", "+"} THEN Tail(s) ELSE s
IntegerText(a) ==
  /\ a.t # "undefined"
  /\ Unsigned(a.v) # <<>>
  /\ \A i \in 1..Len(Unsigned(a.v)) : IsDigit(Unsigned(a.v)[i])
IntegerValue(a) ==
  IF SkipSpace(a.v) # <<>> /\ Head(SkipSpace(a.v)) = "-"
  THEN 0 - DecimalValue(Unsigned(a.v)) ELSE DecimalValue(Unsigned(a.v))
PositiveInteger(a) == IntegerText(a) /\ IntegerValue(a) > 0
ValidTopupBodies ==
  {b \in AllTopupBodies : ~Falsy(b.user) /\ ~Falsy(b.game) /\ PositiveInteger(b.amount)}

\* C4 (as claimed): a topup whose user or game is missing, or whose amount is
\* missing or is not the text of an integer above zero, is answered 400 at
\* once and queues no insert.
C4_InvalidTopupRefused ==
  [][ \A c \in Clients, b \in AllTopupBodies \ ValidTopupBodies :
        TopupRequest(c, b.user, b.game, b.amount)
        => resp' = Resp("topup", 400) /\ inflight' = inflight /\ orders' = orders
    ]_vars

\* C5: the ids of the stored rows are pairwise distinct; a topup with a user,
\* a game and an integer amount above zero queues an insert of exactly that
\* user, game and amount; and a topup answered 200 has by then appended one
\* row, PENDING, with the queued user, game and amount, under an id no stored
\* row had, which is the orderId of the answer.
C5_CreateOrderStoresUnique ==
  [][ /\ \A i, j \in 1..Len(orders') : i # j => orders'[i].id # orders'[j].id
      /\ \A c \in Clients, b \in ValidTopupBodies :
           TopupRequest(c, b.user, b.game, b.amount)
           => /\ inflight'[c].op = "topup"
              /\ inflight'[c].user = b.user /\ inflight'[c].game = b.game
              /\ inflight'[c].numericAmount = IntegerValue(b.amount)
      /\ \A c \in Clients :
           inflight[c].op = "topup" /\ resp'.op = "topup" /\ resp'.status = 200
           /\ inflight'[c] = Idle
           => /\ inflight[c].id \notin OrderIds
              /\ resp'.orderId = inflight[c].id
              /\ orders' = Append(orders,
                   [id |-> inflight[c].id, user |-> inflight[c].user,
                    game |-> inflight[c].game, amount |-> inflight[c].numericAmount,
                    status |-> "PENDING", created_at |-> now'])
    ]_vars

\* C5 witness: a topup was answered 200 with the id of the row stored last,
\* and an earlier row is stored too
C5_Witness ==
  /\ resp.op = "topup" /\ resp.status = 200
  /\ Len(orders) >= 2
  /\ orders[Len(orders)].id = resp.orderId
  /\ orders[Len(orders)].status = "PENDING"

\* C6: every stored row stays stored, in place, with its id, user, game,
\* amount and created_at; its status is PENDING or PAID, a new row starts
\* PENDING, a PAID row stays PAID, and a status changes only in the step in
\* which the UPDATE of a mock-pay request runs.
C6_OrderLifecycle ==
  [][ /\ Len(orders') >= Len(orders)
      /\ \A i \in 1..Len(orders) :
           /\ [orders'[i] EXCEPT !.status = orders[i].status] = orders[i]
           /\ orders[i].status = "PAID" => orders'[i].status = "PAID"
           /\ orders'[i].status # orders[i].status
                => \E c \in Clients :
                     /\ inflight[c].op = "mock-pay" /\ inflight'[c] = Idle
                     /\ inflight[c].orderId = orders[i].id
                     /\ resp'.op = "mock-pay"
      /\ \A i \in 1..Len(orders') :
           /\ orders'[i].status \in {"PENDING", "PAID"}
           /\ i > Len(orders) => orders'[i].status = "PENDING"
    ]_vars

\* C6 witness: a PAID row and a PENDING row are stored
C6_Witness ==
  \E i, j \in 1..Len(orders) : orders[i].status = "PAID" /\ orders[j].status = "PENDING"

\* C7: when the UPDATE of a mock-pay request runs without a storage error for
\* the id of a stored row, the answer is 200 {ok}, that row is PAID afterwards
\* and nothing else of any row changes; if the row was PAID already, the whole
\* table is as before.
C7_MarkPaidIdempotent ==
  [][ \A c \in Clients :
        MockPayUpdate(c, FALSE) /\ inflight[c].orderId \in OrderIds
        => /\ resp' = [op |-> "mock-pay", status |-> 200, ok |-> TRUE]
           /\ Len(orders') = Len(orders)
           /\ \A i \in 1..Len(orders) :
                /\ orders[i].id = inflight[c].orderId
                     => orders'[i] = [orders[i] EXCEPT !.status = "PAID"]
                /\ orders[i].id # inflight[c].orderId => orders'[i] = orders[i]
           /\ OrderAt(inflight[c].orderId).status = "PAID" => orders' = orders
           /\ sess' = sess /\ admins' = admins
    ]_vars

\* C7 witness: a mock-pay was answered ok, its row is PAID, and a second
\* mock-pay for the same row is outstanding
C7_Witness ==
  /\ resp.op = "mock-pay" /\ resp.status = 200
  /\ \E c \in Clients :
       /\ inflight[c].op = "mock-pay"
       /\ inflight[c].orderId \in OrderIds
       /\ OrderAt(inflight[c].orderId).status = "PAID"

\* C8: when the UPDATE of a mock-pay request runs without a storage error for
\* an id no stored row has (the id of an insert still outstanding included),
\* the answer is 200 {ok} and the table is as before; a mock-pay without an
\* orderId is answered 400 at once and queues nothing; and whatever the id,
\* the rows with another id are as before.
C8_MarkPaidUnmatched ==
  [][ /\ \A c \in Clients :
           MockPayUpdate(c, FALSE) /\ inflight[c].orderId \notin OrderIds
           => /\ resp' = [op |-> "mock-pay", status |-> 200, ok |-> TRUE]
              /\ orders' = orders
      /\ \A c \in Clients, orderId \in {Undefined, ""} :
           MockPayRequest(c, orderId)
           => resp' = Resp("mock-pay", 400) /\ inflight' = inflight /\ orders' = orders
      /\ \A c \in Clients, err \in BOOLEAN :
           MockPayUpdate(c, err)
           => /\ Len(orders') = Len(orders)
              /\ \A i \in 1..Len(orders) :
                   orders[i].id # inflight[c].orderId => orders'[i] = orders[i]
    ]_vars

\* C8 witness: a mock-pay was answered ok while rows are stored, none is PAID
\* and an insert is outstanding
C8_Witness ==
  /\ resp.op = "mock-pay" /\ resp.status = 200
  /\ Len(orders) > 0
  /\ \A i \in 1..Len(orders) : orders[i].status = "PENDING"
  /\ \E c \in Clients : inflight[c].op = "topup" /\ inflight[c].id \notin OrderIds

\* C9: a logout always answers 200 {ok} and leaves the session of its cookie
\* without an admin, whatever it held, and the other sessions as they were; a
\* session without an admin gets one only in the step in which a login of that
\* cookie is answered 200.
C9_LogoutDestroys ==
  [][ /\ \A c \in Clients :
           Logout(c)
           => /\ resp' = [op |-> "logout", status |-> 200, ok |-> TRUE]
              /\ sess' = [sess EXCEPT ![c] = NoAdmin]
              /\ sess[c] = NoAdmin => sess' = sess
              /\ orders' = orders /\ admins' = admins
      /\ \A c \in Clients :
           sess[c] = NoAdmin /\ sess'[c] # NoAdmin
           => /\ inflight[c].op = "login-compare" /\ inflight'[c] = Idle
              /\ resp'.op = "login" /\ resp'.status = 200
    ]_vars

\* C9 witness: a logout was answered while a listing admitted on that cookie
\* is still outstanding: the session held an admin and holds none now
C9_Witness ==
  /\ resp.op = "logout"
  /\ \E c \in Clients : inflight[c].op = "orders" /\ sess[c] = NoAdmin

\* C10 (as claimed): a listing answered 200 returns min(n, limit) rows, they
\* are exactly the rows inserted last, unchanged, and they come in descending
\* order of created_at.
C10_ListReturnsNewest ==
  [][ \A c \in Clients :
        ListOrdersAll(c, FALSE)
        => LET rows == resp'.orders
               n    == Len(orders)
           IN  /\ resp'.status = 200
               /\ Len(rows) = Min(n, ListLimit)
               /\ {rows[k] : k \in 1..Len(rows)}
                    = {orders[i] : i \in (n - Min(n, ListLimit) + 1)..n}
               /\ \A k, l \in 1..Len(rows) :
                    k < l => rows[k].created_at >= rows[l].created_at
    ]_vars

C12_CeilingEveryPath ==
  \A c \in Clients : limiter.served[c] <= max

\* The endpoint a stage of a request belongs to
Endpoint(op) ==
  IF op \in {"login-get", "login-compare"} THEN "login" ELSE op

\* C13: every request is answered once.  A step sends at most one response;
\* a request is over exactly in the step that sends its response, be it the
\* step in which it arrived (a refusal) or the step of one of its callbacks;
\* a request still outstanding only moves forward (from the lookup of a login
\* to the comparison), no statement is run again; a storage error is answered
\* 500 by the callback that meets it and an error of the comparison 401, and
\* neither changes a table or a session; and every outstanding request is
\* eventually over.
C13_ExactlyOneResponse ==
  /\ [][ /\ \A c \in Clients :
             inflight[c] # Idle /\ inflight'[c] = Idle
               => /\ resp'.op = Endpoint(inflight[c].op)
                  /\ resp'.status \in {200, 401, 500}
                  /\ \A d \in Clients \ {c} : inflight'[d] = inflight[d]
         /\ \A c \in Clients :
             inflight[c] # Idle /\ inflight'[c] # Idle /\ inflight'[c] # inflight[c]
               => /\ inflight[c].op = "login-get" /\ inflight'[c].op = "login-compare"
                  /\ resp' = NoResp
         /\ resp' # NoResp /\ resp'.op # "logout"
               => \/ inflight' = inflight /\ resp'.status \in {400, 401}
                  \/ \E c \in Clients : inflight[c] # Idle /\ inflight'[c] = Idle
         /\ \A c \in Clients :
             inflight[c] = Idle /\ inflight'[c] # Idle => resp' = NoResp
         /\ \A c \in Clients, later \in BOOLEAN :
             TopupInsert(c, TRUE, later)
               => resp' = Resp("topup", 500) /\ orders' = orders /\ inflight'[c] = Idle
         /\ \A c \in Clients :
             LoginGet(c, TRUE)
               => resp' = Resp("login", 500) /\ sess' = sess /\ inflight'[c] = Idle
         /\ \A c \in Clients :
             LoginCompare(c, TRUE)
               => resp' = Resp("login", 401) /\ sess' = sess /\ inflight'[c] = Idle
         /\ \A c \in Clients :
             ListOrdersAll(c, TRUE) => resp' = Resp("orders", 500) /\ inflight'[c] = Idle
         /\ \A c \in Clients :
             MockPayUpdate(c, TRUE)
               => resp' = Resp("mock-pay", 500) /\ orders' = orders /\ inflight'[c] = Idle
       ]_vars
  /\ \A c \in Clients : inflight[c] # Idle ~> inflight[c] = Idle

\* C13 witness: a topup was answered 500 with a row stored (the id was taken
\* or the storage failed) while a login of the other client waits for its
\* comparison
C13_Witness ==
  /\ resp = Resp("topup", 500)
  /\ Len(orders) > 0
  /\ \E c \in Clients : inflight[c].op = "login-compare"

\* C14: a session that holds an admin holds the id and username of a row of
\* the admins table; a session comes to hold an admin, or another one, only in
\* the step in which the comparison of a login of that cookie matched the
\* password with the hash of that row, and it then holds that row's id and
\* username; a login answered 400, 401 or 500 leaves every session as it was;
\* and no step of a topup or of a mock-pay (one that queues its statement or
\* sends its response) changes a session.
C14_SessionHoldsMatchedAdmin ==
  [][ /\ \A c \in Clients :
           sess'[c] # NoAdmin
             => \E i \in 1..Len(admins') :
                  sess'[c] = [id |-> admins'[i].id, username |-> admins'[i].username]
      /\ \A c \in Clients :
           sess'[c] # sess[c] /\ sess'[c] # NoAdmin
             => /\ inflight[c].op = "login-compare" /\ inflight'[c] = Idle
                /\ bcryptCompare(inflight[c].password, inflight[c].row.password_hash)
                /\ \E i \in 1..Len(admins) : admins[i] = inflight[c].row
                /\ sess'[c] = [id |-> inflight[c].row.id, username |-> inflight[c].row.username]
                /\ resp' = [op |-> "login", status |-> 200, ok |-> TRUE]
      /\ resp'.op = "login" /\ resp'.status \in {400, 401, 500} => sess' = sess
      /\ \/ resp'.op \in {"topup", "mock-pay"}
         \/ \E c \in Clients :
              inflight'[c] # inflight[c] /\ inflight'[c].op \in {"topup", "mock-pay"}
         => sess' = sess
    ]_vars

\* C14 witness: a login was refused with 401 while both sessions hold the
\* admin and an order is stored
C14_Witness ==
  /\ resp = Resp("login", 401)
  /\ \A c \in Clients : sess[c] = [id |-> 1, username |-> "admin"]
  /\ Len(orders) > 0
====
